---- MODULE Spec2Model ----
(***************************************************************************)
(* CuTest (islandcontroller/cutest): the test tree (case, group, module,   *)
(* run), the setjmp/longjmp assertion protocol of CuTest_RunTestCase, the  *)
(* runners, the statistics aggregator and the three reporters, as a state  *)
(* machine.  src/src/CuTest.c, src/src/CuTest.h, src/test/main.c.          *)
(***************************************************************************)
EXTENDS Integers, Sequences, FiniteSets, TLC

(***************************************************************************)
(* Bounds.  The three capacities carry the names of the header's macros    *)
(* but are scaled down (the header sets 256, 128 and 32): every loop of    *)
(* the source runs to the capacity, whatever its value.                    *)
(***************************************************************************)
CUTEST_MAX_NUM_CASES == 3

CUTEST_MAX_NUM_GROUPS == 2

CUTEST_MAX_NUM_ROOT_ITEM == 3

\* Most assertion calls one invocation of a test function makes.
MaxAsserts == 2

(***************************************************************************)
(* Program constants.                                                      *)
(***************************************************************************)
\* sizeof(acMessage), CuTest.h:34 and :111.
CUTEST_MAX_LEN_MESSAGE == 256

NULL == "NULL"

EN_CUTEST_RESULT_UNDEF == "UNDEF"

EN_CUTEST_RESULT_PASS == "PASS"

EN_CUTEST_RESULT_FAIL == "FAIL"

EN_CUTEST_TYPE_CASE == "CASE"

EN_CUTEST_TYPE_GROUP == "GROUP"

EN_CUTEST_TYPE_MODULE == "MODULE"

CUTEST_SUMMARY_CHR_PASSED == "."

CUTEST_SUMMARY_CHR_FAILED == "F"

CUTEST_SUMMARY_CHR_INVALID == "?"

(***************************************************************************)
(* The test tree the registration macros lay out.  A case, a group and a   *)
(* module are named by their pszName.                                      *)
(***************************************************************************)
Cases == {"Case1", "Case2"}

Groups == {"GroupA", "GroupB"}

Modules == {"Module1"}

\* What main hands to RUN_TEST_CASE, RUN_TEST_GROUP and RUN_TEST_MODULE.
RootCases == {"Case1"}

RootGroups == {"GroupA"}

RootModules == {"Module1"}

\* TEST_CASE: .pszFile = __FILE__, .ulLine = __LINE__ of the definition.
CaseFile(c) == "test.c"

CaseLine(c) == IF c = "Case1" THEN 21 ELSE 26

\* An initializer list: the slots it names, the remaining ones zero (NULL).
Slots(items, n) == [i \in 0..(n - 1) |-> IF i < Len(items) THEN items[i + 1] ELSE NULL]

\* The initializers of the groups: GroupA either prefix-packed, or with an
\* empty slot before its last case, or holding no case.
GroupLayouts ==
  { [g \in Groups |-> IF g = "GroupA" THEN Slots(a, CUTEST_MAX_NUM_CASES)
                                      ELSE Slots(<<"Case2">>, CUTEST_MAX_NUM_CASES)] :
      a \in { <<"Case1", "Case2">>, <<"Case1", NULL, "Case2">>, <<>> } }

\* The initializers of the module: its single group (test/main.c), two
\* groups, or its first slot empty.
ModuleLayouts ==
  { [m \in Modules |-> Slots(a, CUTEST_MAX_NUM_GROUPS)] :
      a \in { <<"GroupA">>, <<"GroupA", "GroupB">>, <<NULL, "GroupA">> } }

\* The test programs checked, each the initializer of GroupA with the
\* initializer of Module1: test/main.c's tree, a module of two groups, a
\* tree with an empty slot at both levels, and a tree without cases.
Programs ==
  { << <<"Case1", "Case2">>, <<"GroupA">> >>,
    << <<"Case1", "Case2">>, <<"GroupA", "GroupB">> >>,
    << <<"Case1", NULL, "Case2">>, <<NULL, "GroupA">> >>,
    << <<>>, <<"GroupA">> >> }

(***************************************************************************)
(* Strings are sequences of characters; a const char* is a record that is  *)
(* either the null pointer or a string.                                    *)
(***************************************************************************)
Str(s) == [isNull |-> FALSE, str |-> s]

NullStr == [isNull |-> TRUE, str |-> <<>>]

Rep(ch, n) == [i \in 1..n |-> ch]

Min(a, b) == IF a < b THEN a ELSE b

DefaultText == <<"a", "s", "s", "e", "r", "t", " ", "f", "a", "i", "l", "e", "d", ".">>

VARIABLES
  tc,           \* the cases: eResult, acMessage, pszMsgFile, ulMsgLine
  groupItems,   \* ppItems of every group
  moduleItems,  \* ppItems of every module
  root,         \* _root: ulCount, asItems
  stack,        \* the call stack below main
  phase,        \* "run", "report", "exited", "aborted"
  console,      \* what CuTest_PrintRunResults printed, <<>> before
  report,       \* what CuTest_GenerateRunReport wrote, <<>> before
  exitCode,     \* what main returned, <<>> before
  runLog,       \* the runner calls of the current top-level run, in order
  fnCase,       \* the case CuTest_RunTestCase ran last
  fnLog,        \* what its test function did, in order
  lastCall,     \* the call main made last, and how its fopen went
  caseLog       \* the cases CuTest_RunTestCase was entered for, in order

vars == <<tc, groupItems, moduleItems, root, stack, phase, console, report,
          exitCode, runLog, fnCase, fnLog, lastCall, caseLog>>


(***************************************************************************)
(* Assertion engine.                                                       *)
(***************************************************************************)
\* Mutant: the result is not stored.
CuTestAssertPassed_NoStore(t) == t

\* CuTestAssertPassed: psTc->eResult = EN_CUTEST_RESULT_PASS, then return.
CuTestAssertPassed(t) == [t EXCEPT !.eResult = EN_CUTEST_RESULT_PASS]

\* Mutant: the failure is not stored in the case.
CuTestAssertFailed_NoStore(t) == t

\* CuTestAssertFailed: psTc->eResult = EN_CUTEST_RESULT_FAIL; the longjmp
\* that follows is the caller's change of the stack (Longjmp below).
CuTestAssertFailed(t) == [t EXCEPT !.eResult = EN_CUTEST_RESULT_FAIL]

\* snprintf(buf, size, "%s"-like output s): at most size - 1 characters are
\* stored, followed by the terminator.
Snprintf(size, s) == SubSeq(s, 1, Min(Len(s), size - 1))

\* Mutant: only a NULL message is replaced by the fixed text.
EvalAssertText_NullOnly(pszMessage) ==
  IF ~pszMessage.isNull THEN pszMessage.str ELSE DefaultText

\* The text CuTest_EvalAssert formats: "%s" of the message when it is
\* neither NULL nor empty, the fixed text otherwise.
EvalAssertText(pszMessage) ==
  IF (~pszMessage.isNull) /\ (pszMessage.str # <<>>) THEN pszMessage.str
  ELSE DefaultText

\* CuTest_EvalAssert, up to the longjmp of its failing branch.
CuTest_EvalAssert(t, pszFile, ulLine, bCondition, pszMessage) ==
  IF bCondition THEN CuTestAssertPassed(t)
  ELSE CuTestAssertFailed(
         [t EXCEPT !.acMessage = Snprintf(CUTEST_MAX_LEN_MESSAGE, EvalAssertText(pszMessage)),
                   !.pszMsgFile = pszFile,
                   !.ulMsgLine = ulLine])

(***************************************************************************)
(* CuTest_EvalAssertMemEquals and the text its snprintf formats.           *)
(***************************************************************************)
DecDigits == <<"0", "1", "2", "3", "4", "5", "6", "7", "8", "9">>

HexDigits == DecDigits \o <<"A", "B", "C", "D", "E", "F">>

RECURSIVE FormatNat(_)
\* The decimal digits of a natural number.
FormatNat(n) ==
  IF n < 10 THEN <<DecDigits[n + 1]>>
  ELSE FormatNat(n \div 10) \o <<DecDigits[(n % 10) + 1]>>

\* "%d": a signed decimal.  The offsets formatted here lie far below 2^31,
\* where reading the size_t argument as an int keeps its value.
FormatD(v) == IF v < 0 THEN <<"-">> \o FormatNat(-v) ELSE FormatNat(v)

\* "%02X" of a byte: two upper-case hexadecimal digits.
Format02X(b) == <<HexDigits[(b \div 16) + 1], HexDigits[(b % 16) + 1]>>

\* "mismatch at offset <%d>: expected <0x%02X>, but was <0x%02X>".
MismatchText(i, ucExpected, ucActual) ==
  <<"m", "i", "s", "m", "a", "t", "c", "h", " ", "a", "t", " ", "o", "f",
     "f", "s", "e", "t", " ", "<">>
    \o FormatD(i) \o
  <<">", ":", " ", "e", "x", "p", "e", "c", "t", "e", "d", " ", "<", "0",
     "x">>
    \o Format02X(ucExpected) \o
  <<">", ",", " ", "b", "u", "t", " ", "w", "a", "s", " ", "<", "0", "x">>
    \o Format02X(ucActual) \o <<">">>

\* What a call of CuTest_EvalAssertMemEquals leaves: the case, the number
\* of offsets whose bytes it compared, and whether it left by longjmp.
MemEqualsOutcome(t, ulCompared, bJumped) ==
  [t |-> t, ulCompared |-> ulCompared, bJumped |-> bJumped]

RECURSIVE MemEquals_Loop_NoJump(_, _, _, _, _, _, _)
\* Mutant: CuTestAssertFailed returns, and the loop goes on to the end.
MemEquals_Loop_NoJump(t, pszFile, ulLine, pExpected, pActual, uSize, i) ==
  IF i < uSize
  THEN IF pExpected[i] # pActual[i]
       THEN MemEquals_Loop_NoJump(
              CuTestAssertFailed(
                [t EXCEPT !.acMessage = Snprintf(CUTEST_MAX_LEN_MESSAGE,
                                                 MismatchText(i, pExpected[i], pActual[i])),
                          !.pszMsgFile = pszFile,
                          !.ulMsgLine = ulLine]),
              pszFile, ulLine, pExpected, pActual, uSize, i + 1)
       ELSE MemEquals_Loop_NoJump(t, pszFile, ulLine, pExpected, pActual, uSize, i + 1)
  ELSE MemEqualsOutcome(CuTestAssertPassed(t), uSize, FALSE)

RECURSIVE MemEquals_Loop(_, _, _, _, _, _, _)
\* for (i = 0; i < uSize; ++i): compare the bytes at offset i; on a
\* mismatch format the message, set the location and CuTestAssertFailed,
\* which does not return.  After the loop CuTestAssertPassed.
MemEquals_Loop(t, pszFile, ulLine, pExpected, pActual, uSize, i) ==
  IF i < uSize
  THEN IF pExpected[i] # pActual[i]
       THEN MemEqualsOutcome(
              CuTestAssertFailed(
                [t EXCEPT !.acMessage = Snprintf(CUTEST_MAX_LEN_MESSAGE,
                                                 MismatchText(i, pExpected[i], pActual[i])),
                          !.pszMsgFile = pszFile,
                          !.ulMsgLine = ulLine]),
              i + 1, TRUE)
       ELSE MemEquals_Loop(t, pszFile, ulLine, pExpected, pActual, uSize, i + 1)
  ELSE MemEqualsOutcome(CuTestAssertPassed(t), uSize, FALSE)

CuTest_EvalAssertMemEquals(t, pszFile, ulLine, pExpected, pActual, uSize) ==
  MemEquals_Loop(t, pszFile, ulLine, pExpected, pActual, uSize, 0)

\* Mutant: the resumed setjmp returns the val of longjmp as it is.
SetjmpReturn_Identity(val) == val

\* What setjmp returns when longjmp(env, val) resumes it: val, but 1 for a
\* val of 0 (CuTestAssertFailed passes 0).
SetjmpReturn(val) == IF val = 0 THEN 1 ELSE val

(***************************************************************************)
(* The call stack.  A frame is a function in progress: its argument p, its *)
(* position pc and one integer i (a loop index, the value setjmp returned, *)
(* or the number of assertion calls the test function has made).           *)
(***************************************************************************)
Frame(fn, p, pc, i) == [fn |-> fn, p |-> p, pc |-> pc, i |-> i]

Top == stack[Len(stack)]

Pop(stk) == SubSeq(stk, 1, Len(stk) - 1)

SetTop(stk, f) == [stk EXCEPT ![Len(stk)] = f]

\* Mutant: the jump discards every frame and lands in main.
Longjmp_ToMain(stk, c, val) == <<>>

\* longjmp(psTc->sEnv, val): psTc->sEnv was filled by the setjmp of the
\* CuTest_RunTestCase frame of psTc, so control resumes in that frame, at
\* the setjmp, which now returns SetjmpReturn(val); the frames above it
\* are discarded.
Longjmp(stk, c, val) ==
  LET k == CHOOSE j \in 1..Len(stk) :
             stk[j].fn = "CuTest_RunTestCase" /\ stk[j].p = c
  IN  Append(SubSeq(stk, 1, k - 1),
             Frame("CuTest_RunTestCase", c, "setjmp", SetjmpReturn(val)))

\* Mutant: the message buffer is cleared, the result is not reset.
ResetResultBuffers_KeepResult(t) == [t EXCEPT !.acMessage = <<>>]

\* Mutant: the result is reset, the message buffer is not cleared.
ResetResultBuffers_KeepMessage(t) == [t EXCEPT !.eResult = EN_CUTEST_RESULT_UNDEF]

\* Mutant: the reset clears the message line as well.
ResetResultBuffers_ClearsLine(t) ==
  [t EXCEPT !.eResult = EN_CUTEST_RESULT_UNDEF, !.acMessage = <<>>, !.ulMsgLine = 0]

\* The reset at the head of CuTest_RunTestCase.
ResetResultBuffers(t) ==
  [t EXCEPT !.eResult = EN_CUTEST_RESULT_UNDEF, !.acMessage = <<>>]

(***************************************************************************)
(* The log of one run.                                                     *)
(***************************************************************************)
RunnerCall(fn, p, owner, slot) == [fn |-> fn, p |-> p, owner |-> owner, slot |-> slot]

CallEvent == [ev |-> "call", cond |-> TRUE, msg |-> NullStr, file |-> "", line |-> 0]

AssertEvent(a) ==
  [ev |-> "assert", cond |-> a.cond, msg |-> a.msg, file |-> a.file, line |-> a.line]

\* What the log keeps of a CuAssertMemEquals call: the call, whether it
\* returned (cond), and how many offsets it compared.
MemEqualsEvent(a, r) ==
  [ev |-> "assert", cond |-> ~r.bJumped, msg |-> NullStr, file |-> a.file, line |-> a.line,
   expected |-> a.expected, actual |-> a.actual, size |-> a.size,
   ulCompared |-> r.ulCompared]

(***************************************************************************)
(* The assertion calls a test function may make as its k-th one.           *)
(***************************************************************************)
SiteLine(c, k) == CaseLine(c) + 2 + k

\* CuPass() and CuFail(message), CuTest.h:275-276, written once each in the
\* body of the test function (on its second and third line).
MacroCalls(c, k) ==
  { [cond |-> TRUE, msg |-> NullStr, file |-> CaseFile(c), line |-> CaseLine(c) + 2],
    [cond |-> FALSE, msg |-> Str(<<"m">>), file |-> CaseFile(c), line |-> CaseLine(c) + 3] }

\* CuAssert(condition, message), CuTest.h:277: no message, an empty one, a
\* short one, the longest one that fits the buffer and one that does not.
Messages ==
  { NullStr, Str(<<>>), Str(<<"m">>),
    Str(Rep("x", CUTEST_MAX_LEN_MESSAGE - 1)),
    Str(Rep("x", CUTEST_MAX_LEN_MESSAGE - 1) \o <<"y">>) }

CuAssertCalls(c, k) ==
  { [cond |-> TRUE, msg |-> m, file |-> CaseFile(c), line |-> SiteLine(c, k)] :
      m \in {NullStr, Str(<<"m">>)} }
  \cup
  { [cond |-> FALSE, msg |-> m, file |-> f, line |-> SiteLine(c, k)] :
      m \in Messages, f \in {CaseFile(c), "util.h"} }

\* Most bytes a CuAssertMemEquals call compares.
MaxMemSize == 2

\* The byte the expected buffers hold at offset i: 0x11, 0x22, ...
ExpectedByte(i) == (17 * (i + 1)) % 256

\* CuAssertMemEquals(expected, actual, size), CuTest.h:283: buffers of
\* every size up to MaxMemSize, the actual one holding at each offset either
\* the expected byte or 0xFF.
MemEqualsCalls(c, k) ==
  UNION { { [file |-> CaseFile(c), line |-> SiteLine(c, k), size |-> n,
             expected |-> [i \in 0..(n - 1) |-> ExpectedByte(i)],
             actual |-> [i \in 0..(n - 1) |-> IF i \in d THEN 255 ELSE ExpectedByte(i)]] :
              d \in SUBSET (0..(n - 1)) } : n \in 0..MaxMemSize }

(***************************************************************************)
(* Run management.                                                         *)
(***************************************************************************)
\* Mutant: a count equal to the capacity is let through.
CountBelowCapacity_OrEqual(r) == r.ulCount <= CUTEST_MAX_NUM_ROOT_ITEM

\* assert(psRoot->ulCount < CUTEST_MAX_NUM_ROOT_ITEM), as CuTest_AppendRootItem,
\* CuTestPrintSummary, CuTestPrintDetails, CuTestGetStats and
\* CuTest_GenerateRunReport state it.
CountBelowCapacity(r) == r.ulCount < CUTEST_MAX_NUM_ROOT_ITEM

\* Mutant: the item is stored in the first slot.
CuTest_AppendRootItem_AtFront(r, eType, pItem) ==
  [ulCount |-> r.ulCount + 1,
   asItems |-> [r.asItems EXCEPT ![0] = [eType |-> eType, pItem |-> pItem]]]

\* psRoot->asItems[psRoot->ulCount++] = { .eType = eType, .pItem = pItem }.
CuTest_AppendRootItem(r, eType, pItem) ==
  [ulCount |-> r.ulCount + 1,
   asItems |-> [r.asItems EXCEPT ![r.ulCount] = [eType |-> eType, pItem |-> pItem]]]

\* A failed assert() of <assert.h> aborts the process.
Abort ==
  /\ phase' = "aborted"
  /\ UNCHANGED <<tc, groupItems, moduleItems, root, stack, console, report,
                 exitCode, runLog, fnCase, fnLog, caseLog>>

\* RUN_TEST_CASE(x), RUN_TEST_GROUP(x), RUN_TEST_MODULE(x): append the root
\* item, then call the runner.
RunMacro(eType, fn, x) ==
  /\ phase = "run"
  /\ stack = <<>>
  /\ lastCall' = <<fn, x>>
  /\ IF CountBelowCapacity(root)
     THEN /\ root' = CuTest_AppendRootItem(root, eType, x)
          /\ stack' = <<Frame(fn, x, "entry", 0)>>
          /\ runLog' = <<RunnerCall(fn, x, NULL, root.ulCount)>>
          /\ UNCHANGED <<tc, groupItems, moduleItems, phase, console, report,
                         exitCode, fnCase, fnLog, caseLog>>
     ELSE Abort

RUN_TEST_CASE(x) == RunMacro(EN_CUTEST_TYPE_CASE, "CuTest_RunTestCase", x)

RUN_TEST_GROUP(x) == RunMacro(EN_CUTEST_TYPE_GROUP, "CuTest_RunTestGroup", x)

RUN_TEST_MODULE(x) == RunMacro(EN_CUTEST_TYPE_MODULE, "CuTest_RunTestModule", x)

Running == phase = "run" /\ stack # <<>>

\* CuTest_RunTestCase, from its entry to the setjmp returning 0.
RunTestCase_Enter ==
  /\ Running
  /\ Top.fn = "CuTest_RunTestCase" /\ Top.pc = "entry"
  /\ tc' = [tc EXCEPT ![Top.p] = ResetResultBuffers(@)]
  /\ stack' = SetTop(stack, Frame(Top.fn, Top.p, "setjmp", 0))
  /\ fnCase' = Top.p
  /\ fnLog' = <<>>
  /\ caseLog' = Append(caseLog, Top.p)
  /\ UNCHANGED <<groupItems, moduleItems, root, phase, console, report, exitCode, runLog,
                 lastCall>>

\* if (setjmp(psTc->sEnv) == 0) psTc->pfvTestFn(psTc);
RunTestCase_Setjmp ==
  /\ Running
  /\ Top.fn = "CuTest_RunTestCase" /\ Top.pc = "setjmp"
  /\ IF Top.i = 0
     THEN /\ stack' = Append(SetTop(stack, Frame(Top.fn, Top.p, "print", Top.i)),
                             Frame("TestFn", Top.p, "body", 0))
          /\ fnLog' = Append(fnLog, CallEvent)
     ELSE /\ stack' = SetTop(stack, Frame(Top.fn, Top.p, "print", Top.i))
          /\ UNCHANGED fnLog
  /\ UNCHANGED <<tc, groupItems, moduleItems, root, phase, console, report, exitCode,
                 runLog, fnCase,
                 lastCall, caseLog>>

\* The test function makes one of the assertion calls `calls`:
\* CuTest_EvalAssert returns to it when the condition holds and leaves by
\* longjmp when it does not.
TestFn_Assert(calls) ==
  /\ Running
  /\ Top.fn = "TestFn"
  /\ Top.i < MaxAsserts
  /\ \E a \in calls :
       /\ tc' = [tc EXCEPT ![Top.p] = CuTest_EvalAssert(@, a.file, a.line, a.cond, a.msg)]
       /\ fnLog' = Append(fnLog, AssertEvent(a))
       /\ stack' = IF a.cond THEN SetTop(stack, Frame(Top.fn, Top.p, Top.pc, Top.i + 1))
                             ELSE Longjmp(stack, Top.p, 0)
  /\ UNCHANGED <<groupItems, moduleItems, root, phase, console, report, exitCode,
                 runLog, fnCase,
                 lastCall, caseLog>>

TestFn_CuPassFail == TestFn_Assert(MacroCalls(Top.p, Top.i))

TestFn_CuAssert == TestFn_Assert(CuAssertCalls(Top.p, Top.i))

\* The test function calls CuAssertMemEquals: CuTest_EvalAssertMemEquals
\* returns to it when no byte differs and leaves by longjmp at the first
\* one that does.
TestFn_CuAssertMemEquals ==
  /\ Running
  /\ Top.fn = "TestFn"
  /\ Top.i < MaxAsserts
  /\ \E a \in MemEqualsCalls(Top.p, Top.i) :
       LET r == CuTest_EvalAssertMemEquals(tc[Top.p], a.file, a.line,
                                           a.expected, a.actual, a.size)
       IN  /\ tc' = [tc EXCEPT ![Top.p] = r.t]
           /\ fnLog' = Append(fnLog, MemEqualsEvent(a, r))
           /\ stack' = IF r.bJumped THEN Longjmp(stack, Top.p, 0)
                       ELSE SetTop(stack, Frame(Top.fn, Top.p, Top.pc, Top.i + 1))
  /\ UNCHANGED <<groupItems, moduleItems, root, phase, console, report, exitCode,
                 runLog, fnCase, lastCall, caseLog>>

\* The test function returns.
TestFn_Return ==
  /\ Running
  /\ Top.fn = "TestFn"
  /\ stack' = Pop(stack)
  /\ UNCHANGED <<tc, groupItems, moduleItems, root, phase, console, report, exitCode,
                 runLog, fnCase, fnLog,
                 lastCall, caseLog>>

\* The tail of CuTest_RunTestCase: the result line for the error parser
\* (written to stdout, which the model does not keep), then the return.
RunTestCase_Print ==
  /\ Running
  /\ Top.fn = "CuTest_RunTestCase" /\ Top.pc = "print"
  /\ stack' = Pop(stack)
  /\ UNCHANGED <<tc, groupItems, moduleItems, root, phase, console, report, exitCode,
                 runLog, fnCase, fnLog,
                 lastCall, caseLog>>

\* One pass of a runner's for loop over the slots ppItems[0..n-1]: an
\* occupied slot is run, an empty one passed over, and the function returns
\* when the index reaches n.
RunnerLoop(fn, items, n, callee) ==
  /\ Running
  /\ Top.fn = fn
  /\ IF Top.i < n
     THEN IF items[Top.p][Top.i] # NULL
          THEN /\ stack' = Append(SetTop(stack, Frame(fn, Top.p, "loop", Top.i + 1)),
                                  Frame(callee, items[Top.p][Top.i], "entry", 0))
               /\ runLog' = Append(runLog, RunnerCall(callee, items[Top.p][Top.i], Top.p, Top.i))
          ELSE /\ stack' = SetTop(stack, Frame(fn, Top.p, "loop", Top.i + 1))
               /\ UNCHANGED runLog
     ELSE /\ stack' = Pop(stack)
          /\ UNCHANGED runLog
  /\ UNCHANGED <<tc, groupItems, moduleItems, root, phase, console, report, exitCode,
                 fnCase, fnLog,
                 lastCall, caseLog>>

CuTest_RunTestGroup ==
  RunnerLoop("CuTest_RunTestGroup", groupItems, CUTEST_MAX_NUM_CASES, "CuTest_RunTestCase")

CuTest_RunTestModule ==
  RunnerLoop("CuTest_RunTestModule", moduleItems, CUTEST_MAX_NUM_GROUPS, "CuTest_RunTestGroup")

(***************************************************************************)
(* Statistics aggregator.                                                  *)
(***************************************************************************)
ZeroStats == [ulTotal |-> 0, ulPassed |-> 0, ulFailed |-> 0]

\* Mutant: the counters are merged, not added.
AddStats_Max(a, b) ==
  [ulTotal |-> IF a.ulTotal > b.ulTotal THEN a.ulTotal ELSE b.ulTotal,
   ulPassed |-> IF a.ulPassed > b.ulPassed THEN a.ulPassed ELSE b.ulPassed,
   ulFailed |-> IF a.ulFailed > b.ulFailed THEN a.ulFailed ELSE b.ulFailed]

\* The three += of every aggregation loop.
AddStats(a, b) ==
  [ulTotal |-> a.ulTotal + b.ulTotal,
   ulPassed |-> a.ulPassed + b.ulPassed,
   ulFailed |-> a.ulFailed + b.ulFailed]

\* Mutant: every case that did not fail counts as passed.
CuTestGetStats_Case_NotFailed(psCase) ==
  [ulTotal |-> 1,
   ulFailed |-> IF tc[psCase].eResult = EN_CUTEST_RESULT_FAIL THEN 1 ELSE 0,
   ulPassed |-> IF tc[psCase].eResult # EN_CUTEST_RESULT_FAIL THEN 1 ELSE 0]

CuTestGetStats_Case(psCase) ==
  [ulTotal |-> 1,
   ulFailed |-> IF tc[psCase].eResult = EN_CUTEST_RESULT_FAIL THEN 1 ELSE 0,
   ulPassed |-> IF tc[psCase].eResult = EN_CUTEST_RESULT_PASS THEN 1 ELSE 0]

RECURSIVE GetStats_GroupLoop(_, _, _)
\* for (i = 0; i < CUTEST_MAX_NUM_CASES; ++i) if (psCase != NULL) { ... }
GetStats_GroupLoop(psGroup, i, sGroup) ==
  IF i < CUTEST_MAX_NUM_CASES
  THEN IF groupItems[psGroup][i] # NULL
       THEN GetStats_GroupLoop(psGroup, i + 1,
                               AddStats(sGroup, CuTestGetStats_Case(groupItems[psGroup][i])))
       ELSE GetStats_GroupLoop(psGroup, i + 1, sGroup)
  ELSE sGroup

CuTestGetStats_Group(psGroup) == GetStats_GroupLoop(psGroup, 0, ZeroStats)

RECURSIVE GetStats_ModuleLoop(_, _, _)
\* for (i = 0; i < CUTEST_MAX_NUM_GROUPS; ++i) if (psGroup != NULL) { ... }
GetStats_ModuleLoop(psModule, i, sModule) ==
  IF i < CUTEST_MAX_NUM_GROUPS
  THEN IF moduleItems[psModule][i] # NULL
       THEN GetStats_ModuleLoop(psModule, i + 1,
                                AddStats(sModule, CuTestGetStats_Group(moduleItems[psModule][i])))
       ELSE GetStats_ModuleLoop(psModule, i + 1, sModule)
  ELSE sModule

CuTestGetStats_Module(psModule) == GetStats_ModuleLoop(psModule, 0, ZeroStats)

\* The switch on psItem->eType of CuTestGetStats; sItem stays { 0, 0, 0 }
\* for a NULL pItem.
GetStats_Item(psItem) ==
  IF psItem.pItem = NULL THEN ZeroStats
  ELSE IF psItem.eType = EN_CUTEST_TYPE_CASE THEN CuTestGetStats_Case(psItem.pItem)
  ELSE IF psItem.eType = EN_CUTEST_TYPE_GROUP THEN CuTestGetStats_Group(psItem.pItem)
  ELSE IF psItem.eType = EN_CUTEST_TYPE_MODULE THEN CuTestGetStats_Module(psItem.pItem)
  ELSE ZeroStats

RECURSIVE GetStats_RootLoop(_, _, _)
GetStats_RootLoop(psRoot, i, sRun) ==
  IF i < psRoot.ulCount
  THEN GetStats_RootLoop(psRoot, i + 1, AddStats(sRun, GetStats_Item(psRoot.asItems[i])))
  ELSE sRun

\* CuTestGetStats, below its assert (CountBelowCapacity).
CuTestGetStats(psRoot) == GetStats_RootLoop(psRoot, 0, ZeroStats)

\* Mutant: the run passes when no case failed.
CuTest_GetRunResult_NoFailure(psRoot) ==
  IF CuTestGetStats(psRoot).ulFailed = 0 THEN EN_CUTEST_RESULT_PASS ELSE EN_CUTEST_RESULT_FAIL

\* Mutant: a Run without cases is not Passed.
CuTest_GetRunResult_NeedsCases(psRoot) ==
  LET sRun == CuTestGetStats(psRoot)
  IN  IF sRun.ulTotal > 0 /\ sRun.ulPassed = sRun.ulTotal
      THEN EN_CUTEST_RESULT_PASS ELSE EN_CUTEST_RESULT_FAIL

\* CuTest_GetRunResult.
CuTest_GetRunResult(psRoot) ==
  LET sRun == CuTestGetStats(psRoot)
  IN  IF sRun.ulPassed = sRun.ulTotal THEN EN_CUTEST_RESULT_PASS ELSE EN_CUTEST_RESULT_FAIL

\* Mutant: the two exit codes are swapped.
GET_RUN_RESULT_Swapped(eResult) ==
  IF eResult = EN_CUTEST_RESULT_PASS THEN "EXIT_FAILURE" ELSE "EXIT_SUCCESS"

\* GET_RUN_RESULT(), applied to what CuTest_GetRunResult returned.
GET_RUN_RESULT(eResult) ==
  IF eResult = EN_CUTEST_RESULT_PASS THEN "EXIT_SUCCESS" ELSE "EXIT_FAILURE"

(***************************************************************************)
(* Console reporter: the summary tape.                                     *)
(***************************************************************************)
\* Mutant: a case that is not Failed is printed as passed.
CuTestPrintSummaryTape_Case_NotFailed(psCase) ==
  IF tc[psCase].eResult = EN_CUTEST_RESULT_FAIL THEN <<CUTEST_SUMMARY_CHR_FAILED>>
  ELSE <<CUTEST_SUMMARY_CHR_PASSED>>

\* '.', 'F' or '?' for the result of the case.
CuTestPrintSummaryTape_Case(psCase) ==
  IF tc[psCase].eResult = EN_CUTEST_RESULT_PASS THEN <<CUTEST_SUMMARY_CHR_PASSED>>
  ELSE IF tc[psCase].eResult = EN_CUTEST_RESULT_FAIL THEN <<CUTEST_SUMMARY_CHR_FAILED>>
  ELSE <<CUTEST_SUMMARY_CHR_INVALID>>

RECURSIVE SummaryTape_GroupLoop(_, _)
\* if (psCase != NULL) CuTestPrintSummaryTape_Case(psCase); else break;
SummaryTape_GroupLoop(psGroup, i) ==
  IF i < CUTEST_MAX_NUM_CASES /\ groupItems[psGroup][i] # NULL
  THEN CuTestPrintSummaryTape_Case(groupItems[psGroup][i]) \o SummaryTape_GroupLoop(psGroup, i + 1)
  ELSE <<>>

\* Mutant: the loop starts at the second slot.
CuTestPrintSummaryTape_Group_FromSecond(psGroup) == SummaryTape_GroupLoop(psGroup, 1)

CuTestPrintSummaryTape_Group(psGroup) == SummaryTape_GroupLoop(psGroup, 0)

RECURSIVE SummaryTape_ModuleLoop(_, _)
\* if (psGroup != NULL) CuTestPrintSummaryTape_Group(psGroup); else break;
SummaryTape_ModuleLoop(psModule, i) ==
  IF i < CUTEST_MAX_NUM_GROUPS /\ moduleItems[psModule][i] # NULL
  THEN CuTestPrintSummaryTape_Group(moduleItems[psModule][i])
         \o SummaryTape_ModuleLoop(psModule, i + 1)
  ELSE <<>>

CuTestPrintSummaryTape_Module(psModule) == SummaryTape_ModuleLoop(psModule, 0)

RECURSIVE Summary_RootLoop(_, _)
\* if (psItem->pItem != NULL) switch (psItem->eType) { ... } else break;
Summary_RootLoop(psRoot, i) ==
  IF i < psRoot.ulCount /\ psRoot.asItems[i].pItem # NULL
  THEN LET psItem == psRoot.asItems[i]
       IN  (IF psItem.eType = EN_CUTEST_TYPE_CASE
              THEN CuTestPrintSummaryTape_Case(psItem.pItem)
            ELSE IF psItem.eType = EN_CUTEST_TYPE_GROUP
              THEN CuTestPrintSummaryTape_Group(psItem.pItem)
            ELSE IF psItem.eType = EN_CUTEST_TYPE_MODULE
              THEN CuTestPrintSummaryTape_Module(psItem.pItem)
            ELSE <<>>)
           \o Summary_RootLoop(psRoot, i + 1)
  ELSE <<>>

\* CuTestPrintSummary, below its assert: the tape between legend and trailer.
CuTestPrintSummary(psRoot) == Summary_RootLoop(psRoot, 0)

(***************************************************************************)
(* Console reporter: the detail listing.  A walk carries the counter       *)
(* *pulNum and the lines printed so far.                                   *)
(***************************************************************************)
Walk(ulNum, out) == [ulNum |-> ulNum, out |-> out]

NotEvaluated == <<"not evaluated">>

\* Mutant: only a Failed case is listed.
CuTestPrintDetails_Case_FailedOnly(w, psCase) ==
  IF tc[psCase].eResult = EN_CUTEST_RESULT_FAIL
  THEN Walk(w.ulNum + 1,
            Append(w.out, [num |-> w.ulNum + 1, name |-> psCase,
                           file |-> tc[psCase].pszMsgFile, line |-> tc[psCase].ulMsgLine,
                           text |-> tc[psCase].acMessage]))
  ELSE w

\* A numbered entry for a Failed and for an Undefined case, none otherwise.
CuTestPrintDetails_Case(w, psCase) ==
  IF tc[psCase].eResult = EN_CUTEST_RESULT_FAIL
  THEN Walk(w.ulNum + 1,
            Append(w.out, [num |-> w.ulNum + 1, name |-> psCase,
                           file |-> tc[psCase].pszMsgFile, line |-> tc[psCase].ulMsgLine,
                           text |-> tc[psCase].acMessage]))
  ELSE IF tc[psCase].eResult = EN_CUTEST_RESULT_UNDEF
  THEN Walk(w.ulNum + 1,
            Append(w.out, [num |-> w.ulNum + 1, name |-> psCase,
                           file |-> CaseFile(psCase), line |-> CaseLine(psCase),
                           text |-> NotEvaluated]))
  ELSE w

RECURSIVE Details_GroupLoop(_, _, _)
\* if (psCase != NULL) CuTestPrintDetails_Case(pulNum, psCase);
Details_GroupLoop(w, psGroup, i) ==
  IF i < CUTEST_MAX_NUM_CASES
  THEN IF groupItems[psGroup][i] # NULL
       THEN Details_GroupLoop(CuTestPrintDetails_Case(w, groupItems[psGroup][i]), psGroup, i + 1)
       ELSE Details_GroupLoop(w, psGroup, i + 1)
  ELSE w

CuTestPrintDetails_Group(w, psGroup) == Details_GroupLoop(w, psGroup, 0)

RECURSIVE Details_ModuleLoop(_, _, _)
\* if (psGroup != NULL) CuTestPrintDetails_Group(pulNum, psGroup);
Details_ModuleLoop(w, psModule, i) ==
  IF i < CUTEST_MAX_NUM_GROUPS
  THEN IF moduleItems[psModule][i] # NULL
       THEN Details_ModuleLoop(CuTestPrintDetails_Group(w, moduleItems[psModule][i]),
                               psModule, i + 1)
       ELSE Details_ModuleLoop(w, psModule, i + 1)
  ELSE w

CuTestPrintDetails_Module(w, psModule) == Details_ModuleLoop(w, psModule, 0)

RECURSIVE Details_RootLoop(_, _, _)
\* if (psItem->pItem != NULL) switch (psItem->eType) { ... }
Details_RootLoop(w, psRoot, i) ==
  IF i < psRoot.ulCount
  THEN LET psItem == psRoot.asItems[i]
           w1 == IF psItem.pItem = NULL THEN w
                 ELSE IF psItem.eType = EN_CUTEST_TYPE_CASE
                   THEN CuTestPrintDetails_Case(w, psItem.pItem)
                 ELSE IF psItem.eType = EN_CUTEST_TYPE_GROUP
                   THEN CuTestPrintDetails_Group(w, psItem.pItem)
                 ELSE IF psItem.eType = EN_CUTEST_TYPE_MODULE
                   THEN CuTestPrintDetails_Module(w, psItem.pItem)
                 ELSE w
       IN  Details_RootLoop(w1, psRoot, i + 1)
  ELSE w

\* CuTestPrintDetails, below its assert: the banner ("PASS", or "FAIL" with
\* the header <<fails, invalid>> and the listing) and the totals line.
CuTestPrintDetails(psRoot) ==
  LET sStats == CuTestGetStats(psRoot)
  IN  IF sStats.ulPassed = sStats.ulTotal
      THEN [banner |-> "PASS", header |-> <<>>, details |-> <<>>, totals |-> sStats]
      ELSE [banner |-> "FAIL",
            header |-> <<sStats.ulFailed, sStats.ulTotal - sStats.ulPassed - sStats.ulFailed>>,
            details |-> Details_RootLoop(Walk(0, <<>>), psRoot, 0).out,
            totals |-> sStats]

(***************************************************************************)
(* HTML reporter.  The document is the sequence of its elements.           *)
(***************************************************************************)
Element(el, name) ==
  [el |-> el, num |-> 0, name |-> name, file |-> "", line |-> 0, result |-> "", text |-> <<>>]

CuTestGenerateReport_CaseHeader(w) == Walk(w.ulNum, Append(w.out, Element("table", "")))

CuTestGenerateReport_CaseFooter(w) == Walk(w.ulNum, Append(w.out, Element("/table", "")))

\* Mutant: the message location and the message buffer are printed for
\* every case.
CuTestGenerateReport_CaseLine_MsgAlways(w, psCase) ==
  LET t == tc[psCase]
      pszResult == IF t.eResult = EN_CUTEST_RESULT_PASS THEN "pass"
                   ELSE IF t.eResult = EN_CUTEST_RESULT_FAIL THEN "fail"
                   ELSE "invalid"
  IN  Walk(w.ulNum + 1,
           Append(w.out,
                  [el |-> "tr", num |-> w.ulNum + 1, name |-> psCase,
                   file |-> t.pszMsgFile, line |-> t.ulMsgLine,
                   result |-> pszResult, text |-> t.acMessage]))

\* One table row: *pulNum += 1, then number, name, location, result and
\* message as the result of the case selects them.
CuTestGenerateReport_CaseLine(w, psCase) ==
  LET t == tc[psCase]
      pszResult == IF t.eResult = EN_CUTEST_RESULT_PASS THEN "pass"
                   ELSE IF t.eResult = EN_CUTEST_RESULT_FAIL THEN "fail"
                   ELSE "invalid"
      bPrintMsg == t.eResult = EN_CUTEST_RESULT_FAIL
  IN  Walk(w.ulNum + 1,
           Append(w.out,
                  [el |-> "tr", num |-> w.ulNum + 1, name |-> psCase,
                   file |-> IF bPrintMsg THEN t.pszMsgFile ELSE CaseFile(psCase),
                   line |-> IF bPrintMsg THEN t.ulMsgLine ELSE CaseLine(psCase),
                   result |-> pszResult,
                   text |-> IF bPrintMsg THEN t.acMessage ELSE <<>>]))

RECURSIVE Report_GroupLoop(_, _, _)
\* if (psCase != NULL) CuTestGenerateReport_CaseLine(f, pulNum, psCase);
Report_GroupLoop(w, psGroup, i) ==
  IF i < CUTEST_MAX_NUM_CASES
  THEN IF groupItems[psGroup][i] # NULL
       THEN Report_GroupLoop(CuTestGenerateReport_CaseLine(w, groupItems[psGroup][i]),
                             psGroup, i + 1)
       ELSE Report_GroupLoop(w, psGroup, i + 1)
  ELSE w

CuTestGenerateReport_Group(w, psGroup) ==
  CuTestGenerateReport_CaseFooter(
    Report_GroupLoop(
      CuTestGenerateReport_CaseHeader(Walk(w.ulNum, Append(w.out, Element("h3", psGroup)))),
      psGroup, 0))

RECURSIVE Report_ModuleLoop(_, _, _)
\* if (psGroup != NULL) CuTestGenerateReport_Group(f, pulNum, psGroup);
Report_ModuleLoop(w, psModule, i) ==
  IF i < CUTEST_MAX_NUM_GROUPS
  THEN IF moduleItems[psModule][i] # NULL
       THEN Report_ModuleLoop(CuTestGenerateReport_Group(w, moduleItems[psModule][i]),
                              psModule, i + 1)
       ELSE Report_ModuleLoop(w, psModule, i + 1)
  ELSE w

CuTestGenerateReport_Module(w, psModule) ==
  Report_ModuleLoop(Walk(w.ulNum, Append(w.out, Element("h2", psModule))), psModule, 0)

RECURSIVE Report_RootLoop(_, _, _)
\* if (psItem != NULL) switch (psItem->eType) { ... }: psItem is the address
\* of an array element, never NULL.
Report_RootLoop(w, psRoot, i) ==
  IF i < psRoot.ulCount
  THEN LET psItem == psRoot.asItems[i]
           w1 == IF psItem.eType = EN_CUTEST_TYPE_CASE
                   THEN CuTestGenerateReport_CaseFooter(
                          CuTestGenerateReport_CaseLine(
                            CuTestGenerateReport_CaseHeader(w), psItem.pItem))
                 ELSE IF psItem.eType = EN_CUTEST_TYPE_GROUP
                   THEN CuTestGenerateReport_Group(w, psItem.pItem)
                 ELSE IF psItem.eType = EN_CUTEST_TYPE_MODULE
                   THEN CuTestGenerateReport_Module(w, psItem.pItem)
                 ELSE w
       IN  Report_RootLoop(w1, psRoot, i + 1)
  ELSE w

\* What CuTest_GenerateRunReport writes once the file is open.
GenerateRunReport_Document(psRoot) ==
  [body |-> Report_RootLoop(Walk(0, <<>>), psRoot, 0).out, totals |-> CuTestGetStats(psRoot)]

(***************************************************************************)
(* The end of main: END_TEST_RUN() and return GET_RUN_RESULT().            *)
(***************************************************************************)
AtMain == phase \in {"run", "report"} /\ stack = <<>>

\* Mutant: printing the results empties the Run.
CuTest_PrintRunResults_ClearsRun ==
  /\ AtMain
  /\ lastCall' = <<"CuTest_PrintRunResults">>
  /\ IF CountBelowCapacity(root)
     THEN /\ console' = <<[tape |-> CuTestPrintSummary(root)] @@ CuTestPrintDetails(root)>>
          /\ phase' = "report"
          /\ root' = [root EXCEPT !.ulCount = 0]
          /\ UNCHANGED <<tc, groupItems, moduleItems, stack, report, exitCode,
                         runLog, fnCase, fnLog, caseLog>>
     ELSE Abort

\* CuTest_PrintRunResults: CuTestPrintSummary, then CuTestPrintDetails.
CuTest_PrintRunResults ==
  /\ AtMain
  /\ lastCall' = <<"CuTest_PrintRunResults">>
  /\ IF CountBelowCapacity(root)
     THEN /\ console' = <<[tape |-> CuTestPrintSummary(root)] @@ CuTestPrintDetails(root)>>
          /\ phase' = "report"
          /\ UNCHANGED <<tc, groupItems, moduleItems, root, stack, report, exitCode,
                         runLog, fnCase, fnLog, caseLog>>
     ELSE Abort

\* Mutant: a failed fopen leaves an empty file behind.
CuTest_GenerateRunReport_Truncates(fopenOk) ==
  /\ AtMain
  /\ lastCall' = <<"CuTest_GenerateRunReport", IF fopenOk THEN "fopen: FILE*" ELSE "fopen: NULL">>
  /\ IF CountBelowCapacity(root)
     THEN /\ report' = IF fopenOk THEN <<GenerateRunReport_Document(root)>> ELSE <<>>
          /\ phase' = "report"
          /\ UNCHANGED <<tc, groupItems, moduleItems, root, stack, console, exitCode,
                         runLog, fnCase, fnLog, caseLog>>
     ELSE Abort

\* CuTest_GenerateRunReport: fopen either succeeds or returns NULL.
CuTest_GenerateRunReport(fopenOk) ==
  /\ AtMain
  /\ lastCall' = <<"CuTest_GenerateRunReport", IF fopenOk THEN "fopen: FILE*" ELSE "fopen: NULL">>
  /\ IF CountBelowCapacity(root)
     THEN /\ report' = IF fopenOk THEN <<GenerateRunReport_Document(root)>> ELSE report
          /\ phase' = "report"
          /\ UNCHANGED <<tc, groupItems, moduleItems, root, stack, console, exitCode,
                         runLog, fnCase, fnLog, caseLog>>
     ELSE Abort

\* return GET_RUN_RESULT();
MainReturn ==
  /\ AtMain
  /\ lastCall' = <<"CuTest_GetRunResult">>
  /\ IF CountBelowCapacity(root)
     THEN /\ exitCode' = <<[eResult |-> CuTest_GetRunResult(root),
                           status |-> GET_RUN_RESULT(CuTest_GetRunResult(root))]>>
          /\ phase' = "exited"
          /\ UNCHANGED <<tc, groupItems, moduleItems, root, stack, console, report,
                         runLog, fnCase, fnLog, caseLog>>
     ELSE Abort

(***************************************************************************)
(* Initial state: the static initializers of TEST_CASE, TEST_GROUP and     *)
(* TEST_MODULE, and BEGIN_TEST_RUN().                                      *)
(***************************************************************************)
InitCase(c) ==
  [eResult |-> EN_CUTEST_RESULT_UNDEF, acMessage |-> <<>>,
   pszMsgFile |-> CaseFile(c), ulMsgLine |-> CaseLine(c)]

InitRoot ==
  [ulCount |-> 0,
   asItems |-> [i \in 0..(CUTEST_MAX_NUM_ROOT_ITEM - 1) |->
                  [eType |-> EN_CUTEST_TYPE_CASE, pItem |-> NULL]]]

Init ==
  /\ tc = [c \in Cases |-> InitCase(c)]
  /\ groupItems \in GroupLayouts
  /\ moduleItems \in ModuleLayouts
  /\ \E p \in Programs : /\ groupItems["GroupA"] = Slots(p[1], CUTEST_MAX_NUM_CASES)
                         /\ moduleItems["Module1"] = Slots(p[2], CUTEST_MAX_NUM_GROUPS)
  /\ root = InitRoot
  /\ stack = <<>>
  /\ phase = "run"
  /\ console = <<>>
  /\ report = <<>>
  /\ exitCode = <<>>
  /\ runLog = <<>>
  /\ fnCase = NULL
  /\ fnLog = <<>>
  /\ lastCall = <<>>
  /\ caseLog = <<>>

Next ==
  \/ \E x \in RootCases : RUN_TEST_CASE(x)
  \/ \E x \in RootGroups : RUN_TEST_GROUP(x)
  \/ \E x \in RootModules : RUN_TEST_MODULE(x)
  \/ RunTestCase_Enter
  \/ RunTestCase_Setjmp
  \/ TestFn_CuPassFail
  \/ TestFn_Return
  \/ RunTestCase_Print
  \/ CuTest_RunTestGroup
  \/ CuTest_RunTestModule
  \/ CuTest_PrintRunResults
  \/ \E fopenOk \in BOOLEAN : CuTest_GenerateRunReport(fopenOk)
  \/ MainReturn

Spec == Init /\ [][Next]_vars


\* The assertion engine on its own: main runs single cases, whose test
\* functions call CuAssert with every kind of condition and message.
InitAssert ==
  /\ Init
  /\ groupItems["GroupA"] = Slots(<<"Case1", "Case2">>, CUTEST_MAX_NUM_CASES)
  /\ moduleItems["Module1"] = Slots(<<"GroupA", "GroupB">>, CUTEST_MAX_NUM_GROUPS)

NextAssert ==
  \/ \E x \in RootCases : RUN_TEST_CASE(x)
  \/ RunTestCase_Enter
  \/ RunTestCase_Setjmp
  \/ TestFn_CuAssert
  \/ TestFn_Return
  \/ RunTestCase_Print

SpecAssert == InitAssert /\ [][NextAssert]_vars


\* CuAssertMemEquals on its own: main runs single cases, whose test
\* functions compare byte buffers.
NextMem ==
  \/ \E x \in RootCases : RUN_TEST_CASE(x)
  \/ RunTestCase_Enter
  \/ RunTestCase_Setjmp
  \/ TestFn_CuAssertMemEquals
  \/ TestFn_Return
  \/ RunTestCase_Print

SpecMem == InitAssert /\ [][NextMem]_vars

(***************************************************************************)
(* Vocabulary of the properties.                                           *)
(***************************************************************************)
\* The run of fnCase that fnLog describes is still on the stack.
RunInProgress ==
  \E j \in DOMAIN stack : stack[j].fn = "CuTest_RunTestCase" /\ stack[j].pc # "entry"

\* CuTest_RunTestCase has run fnCase and returned.
RunReturned == fnCase # NULL /\ ~RunInProgress

Invocations == {k \in DOMAIN fnLog : fnLog[k].ev = "call"}

Assertions == {k \in DOMAIN fnLog : fnLog[k].ev = "assert"}

FailedAssertions == {k \in Assertions : ~fnLog[k].cond}

\* fnCase failed in an earlier run: its message location is no longer the
\* one TEST_CASE gave it, and this run has not written it.
FailedBefore ==
  /\ fnCase # NULL
  /\ FailedAssertions = {}
  /\ <<tc[fnCase].pszMsgFile, tc[fnCase].ulMsgLine>> # <<CaseFile(fnCase), CaseLine(fnCase)>>

(***************************************************************************)
(* C1                                                                      *)
(***************************************************************************)
\* C1: within one execution of CuTest_RunTestCase a failing assertion is the
\* last thing the test function does: the result is Failed, no frame of the
\* test function is left, control is in CuTest_RunTestCase of that case with
\* a nonzero setjmp value, and the test function was invoked at most once.
C1_FailUnwindsOnce ==
  fnCase # NULL =>
    /\ Cardinality(Invocations) <= 1
    /\ \A k \in FailedAssertions :
         /\ k = Len(fnLog)
         /\ tc[fnCase].eResult = EN_CUTEST_RESULT_FAIL
         /\ \A j \in DOMAIN stack : stack[j].fn # "TestFn"
         /\ RunInProgress =>
              /\ Top.fn = "CuTest_RunTestCase"
              /\ Top.p = fnCase
              /\ Top.i # 0

\* A run whose first assertion failed while a second one was still allowed
\* has returned.
C1_Witness ==
  /\ RunReturned
  /\ Len(fnLog) = 2
  /\ FailedAssertions = {2}
  /\ MaxAsserts >= 2

(***************************************************************************)
(* C2                                                                      *)
(***************************************************************************)
\* C2: a passing assertion sets Passed and returns to the test function (the
\* function is still running and every assertion it made passed); when
\* CuTest_RunTestCase has returned the result is Undefined iff no assertion
\* ran, Failed iff one failed, Passed iff some ran and none failed.
C2_ResultReflectsAssertions ==
  /\ (stack # <<>> /\ Top.fn = "TestFn") =>
       /\ Top.i = Cardinality(Assertions)
       /\ FailedAssertions = {}
       /\ Top.i > 0 => tc[Top.p].eResult = EN_CUTEST_RESULT_PASS
  /\ RunReturned =>
       /\ tc[fnCase].eResult = EN_CUTEST_RESULT_UNDEF <=> Assertions = {}
       /\ tc[fnCase].eResult = EN_CUTEST_RESULT_FAIL <=> FailedAssertions # {}
       /\ tc[fnCase].eResult = EN_CUTEST_RESULT_PASS <=>
            (Assertions # {} /\ FailedAssertions = {})

\* A run of two passing assertions has returned.
C2_Witness ==
  /\ RunReturned
  /\ Cardinality(Assertions) = 2
  /\ FailedAssertions = {}
  /\ tc[fnCase].eResult = EN_CUTEST_RESULT_PASS

(***************************************************************************)
(* C3                                                                      *)
(***************************************************************************)
\* C3: as long as the test function of the current run has made no assertion
\* (in particular when it is invoked, and when it returns without one), the
\* result is Undefined and the message buffer empty, whatever the earlier
\* runs left.
C3_ResetBeforeInvocation ==
  (fnCase # NULL /\ Assertions = {}) =>
    /\ tc[fnCase].eResult = EN_CUTEST_RESULT_UNDEF
    /\ tc[fnCase].acMessage = <<>>

\* A case that failed in an earlier run was run again, made no assertion and
\* returned.
C3_Witness ==
  /\ RunReturned
  /\ fnLog = <<CallEvent>>
  /\ FailedBefore

(***************************************************************************)
(* C4                                                                      *)
(***************************************************************************)
\* C4: a case whose only assertion had a true condition is Passed with an
\* empty message buffer when CuTest_RunTestCase returns.
C4_TruthyPassedEmptyMessage ==
  (RunReturned /\ Len(fnLog) = 2 /\ fnLog[2].ev = "assert" /\ fnLog[2].cond) =>
    /\ tc[fnCase].eResult = EN_CUTEST_RESULT_PASS
    /\ tc[fnCase].acMessage = <<>>

\* Such a run, of a case that had failed with a message in an earlier run.
C4_Witness ==
  /\ RunReturned
  /\ Len(fnLog) = 2 /\ fnLog[2].ev = "assert" /\ fnLog[2].cond
  /\ FailedBefore

(***************************************************************************)
(* C5                                                                      *)
(***************************************************************************)
LastEvent == fnLog[Len(fnLog)]

JustFailed == fnCase # NULL /\ fnLog # <<>> /\ LastEvent.ev = "assert" /\ ~LastEvent.cond

Supplied(m) == (~m.isNull) /\ m.str # <<>>

\* C5 as claimed: after an assertion with a false condition the result is
\* Failed, the message location is the call site, and the message is the
\* supplied one when one was supplied and "assert failed." otherwise.
C5_SuppliedMessageVerbatim ==
  JustFailed =>
    /\ tc[fnCase].eResult = EN_CUTEST_RESULT_FAIL
    /\ tc[fnCase].pszMsgFile = LastEvent.file
    /\ tc[fnCase].ulMsgLine = LastEvent.line
    /\ Supplied(LastEvent.msg) => tc[fnCase].acMessage = LastEvent.msg.str
    /\ ~Supplied(LastEvent.msg) => tc[fnCase].acMessage = DefaultText

\* C5 as amended: the supplied message is stored verbatim when it is shorter
\* than CUTEST_MAX_LEN_MESSAGE characters, and cut to its first
\* CUTEST_MAX_LEN_MESSAGE - 1 characters otherwise.
C5_SuppliedMessageTruncated ==
  JustFailed =>
    /\ tc[fnCase].eResult = EN_CUTEST_RESULT_FAIL
    /\ tc[fnCase].pszMsgFile = LastEvent.file
    /\ tc[fnCase].ulMsgLine = LastEvent.line
    /\ (Supplied(LastEvent.msg) /\ Len(LastEvent.msg.str) < CUTEST_MAX_LEN_MESSAGE) =>
         tc[fnCase].acMessage = LastEvent.msg.str
    /\ (Supplied(LastEvent.msg) /\ Len(LastEvent.msg.str) >= CUTEST_MAX_LEN_MESSAGE) =>
         tc[fnCase].acMessage = SubSeq(LastEvent.msg.str, 1, CUTEST_MAX_LEN_MESSAGE - 1)
    /\ ~Supplied(LastEvent.msg) => tc[fnCase].acMessage = DefaultText

\* An assertion failed with a message of CUTEST_MAX_LEN_MESSAGE characters,
\* made in another file than the case's.
C5_Witness ==
  /\ JustFailed
  /\ Len(LastEvent.msg.str) = CUTEST_MAX_LEN_MESSAGE
  /\ LastEvent.file # CaseFile(fnCase)
  /\ Len(tc[fnCase].acMessage) = CUTEST_MAX_LEN_MESSAGE - 1


(***************************************************************************)
(* The cases of a Run, stated on the tree and not as a walk: an occurrence *)
(* <<i, g, s>> is the case in slot s of the group in slot g of the module  *)
(* that is root item i; g = -1 when item i is a group, g = s = -1 when it  *)
(* is a case.                                                              *)
(***************************************************************************)
ItemGroup(o) ==
  LET it == root.asItems[o[1]]
  IN  IF it.eType = EN_CUTEST_TYPE_MODULE THEN moduleItems[it.pItem][o[2]] ELSE it.pItem

OccCase(o) ==
  IF root.asItems[o[1]].eType = EN_CUTEST_TYPE_CASE THEN root.asItems[o[1]].pItem
  ELSE groupItems[ItemGroup(o)][o[3]]

IsOccurrence(o) ==
  LET it == root.asItems[o[1]]
  IN  /\ it.pItem # NULL
      /\ IF it.eType = EN_CUTEST_TYPE_CASE THEN o[2] = -1 /\ o[3] = -1
         ELSE IF it.eType = EN_CUTEST_TYPE_GROUP
           THEN o[2] = -1 /\ o[3] >= 0 /\ groupItems[it.pItem][o[3]] # NULL
         ELSE /\ o[2] >= 0 /\ o[3] >= 0
              /\ moduleItems[it.pItem][o[2]] # NULL
              /\ groupItems[moduleItems[it.pItem][o[2]]][o[3]] # NULL

\* The slots below root item i, occupied or not.
ItemSlots(i) ==
  LET eType == root.asItems[i].eType
  IN  IF eType = EN_CUTEST_TYPE_CASE THEN {<<i, -1, -1>>}
      ELSE IF eType = EN_CUTEST_TYPE_GROUP
        THEN {<<i, -1, s>> : s \in 0..(CUTEST_MAX_NUM_CASES - 1)}
      ELSE {i} \X (0..(CUTEST_MAX_NUM_GROUPS - 1)) \X (0..(CUTEST_MAX_NUM_CASES - 1))

\* Every case in an occupied slot below a registered item.
Occurrences ==
  UNION { {o \in ItemSlots(i) : IsOccurrence(o)} : i \in 0..(root.ulCount - 1) }

\* No empty slot lies before the occurrence, in its group or in its module.
BeforeFirstEmptySlot(o) ==
  LET it == root.asItems[o[1]]
  IN  /\ o[2] >= 0 => \A j \in 0..(o[2] - 1) : moduleItems[it.pItem][j] # NULL
      /\ o[3] >= 0 => \A j \in 0..(o[3] - 1) : groupItems[ItemGroup(o)][j] # NULL

PrefixOccurrences == {o \in Occurrences : BeforeFirstEmptySlot(o)}

With(S, eResult) == {o \in S : tc[OccCase(o)].eResult = eResult}

\* {total, passed, failed} of the Run as sums over its occurrences.
SumOfCaseStats ==
  [ulTotal |-> Cardinality(Occurrences),
   ulPassed |-> Cardinality(With(Occurrences, EN_CUTEST_RESULT_PASS)),
   ulFailed |-> Cardinality(With(Occurrences, EN_CUTEST_RESULT_FAIL))]

(***************************************************************************)
(* C6                                                                      *)
(***************************************************************************)
\* C6 as claimed: a runner stops at the first empty slot, so whatever
\* CuTest_RunTestGroup or CuTest_RunTestModule runs lies in a slot that no
\* empty slot precedes.
C6_RunnersStopAtFirstEmptySlot ==
  \A k \in DOMAIN runLog :
    LET e == runLog[k]
        items == IF e.fn = "CuTest_RunTestCase" THEN groupItems ELSE moduleItems
    IN  e.owner # NULL => \A j \in 0..(e.slot - 1) : items[e.owner][j] # NULL

(***************************************************************************)
(* C7                                                                      *)
(***************************************************************************)
Rows(doc) == SelectSeq(doc.body, LAMBDA e : e.el = "tr")

\* C7 as claimed: no reporter emits anything for a case behind an empty
\* slot, so the tape, the detail listing and the HTML rows are no longer
\* than the cases before the first empty slots account for.
C7_ReportersStopAtFirstEmptySlot ==
  /\ console # <<>> =>
       /\ Len(console[1].tape) <= Cardinality(PrefixOccurrences)
       /\ Len(console[1].details) <=
            Cardinality(PrefixOccurrences \ With(PrefixOccurrences, EN_CUTEST_RESULT_PASS))
  /\ report # <<>> => Len(Rows(report[1])) <= Cardinality(PrefixOccurrences)

(***************************************************************************)
(* C8                                                                      *)
(***************************************************************************)
\* C8: the statistics the aggregator returns for a Run (printed on the
\* totals line and written to the report) are the sums, over the cases in
\* the occupied slots of its registered items, of {1, 1 iff Passed, 1 iff
\* Failed}.
C8_StatsAreSums ==
  /\ console # <<>> => console[1].totals = SumOfCaseStats
  /\ report # <<>> => report[1].totals = SumOfCaseStats

\* Results were printed for a Run of a case and a module, with a passed and
\* a failed case among them.
C8_Witness ==
  /\ console # <<>>
  /\ \E i, j \in 0..(root.ulCount - 1) :
       /\ root.asItems[i].eType = EN_CUTEST_TYPE_CASE
       /\ root.asItems[j].eType = EN_CUTEST_TYPE_MODULE
  /\ console[1].totals.ulPassed >= 1
  /\ console[1].totals.ulFailed >= 1
  /\ console[1].totals.ulTotal >= 4

(***************************************************************************)
(* C9                                                                      *)
(***************************************************************************)
\* C9: CuTest_GetRunResult returns Passed iff passed = total, that is iff no
\* case of the Run is Failed or Undefined; a Run with an Undefined case is
\* Failed, and its Undefined cases are counted in total only.
C9_RunResultIffAllPassed ==
  exitCode # <<>> =>
    /\ exitCode[1].eResult \in {EN_CUTEST_RESULT_PASS, EN_CUTEST_RESULT_FAIL}
    /\ exitCode[1].eResult = EN_CUTEST_RESULT_PASS <=>
         SumOfCaseStats.ulPassed = SumOfCaseStats.ulTotal
    /\ exitCode[1].eResult = EN_CUTEST_RESULT_PASS <=>
         (With(Occurrences, EN_CUTEST_RESULT_FAIL) = {}
            /\ With(Occurrences, EN_CUTEST_RESULT_UNDEF) = {})
    /\ SumOfCaseStats.ulTotal - SumOfCaseStats.ulPassed - SumOfCaseStats.ulFailed
         = Cardinality(With(Occurrences, EN_CUTEST_RESULT_UNDEF))

\* main returned for a Run with no Failed case and a case whose test function
\* made no assertion: the Run is Failed.
C9_Witness ==
  /\ exitCode # <<>>
  /\ exitCode[1].eResult = EN_CUTEST_RESULT_FAIL
  /\ With(Occurrences, EN_CUTEST_RESULT_FAIL) = {}
  /\ RunReturned /\ fnLog = <<CallEvent>>
  /\ \E o \in Occurrences : OccCase(o) = fnCase

(***************************************************************************)
(* C10                                                                     *)
(***************************************************************************)
\* C10: the exit code main returns through GET_RUN_RESULT is EXIT_SUCCESS
\* iff every case of the Run is Passed, and EXIT_FAILURE otherwise.
C10_ExitCodeIffPassed ==
  exitCode # <<>> =>
    /\ exitCode[1].status \in {"EXIT_SUCCESS", "EXIT_FAILURE"}
    /\ exitCode[1].status = "EXIT_SUCCESS" <=>
         \A o \in Occurrences : tc[OccCase(o)].eResult = EN_CUTEST_RESULT_PASS

\* main returned EXIT_SUCCESS for a Run of two items.
C10_Witness ==
  /\ exitCode # <<>>
  /\ exitCode[1].status = "EXIT_SUCCESS"
  /\ root.ulCount = 2
  /\ Occurrences # {}

(***************************************************************************)
(* The occurrences of a set in the order of the tree: root items in the    *)
(* order of registration, below them groups and cases in slot order.       *)
(***************************************************************************)
OccLess(a, b) ==
  \/ a[1] < b[1]
  \/ a[1] = b[1] /\ a[2] < b[2]
  \/ a[1] = b[1] /\ a[2] = b[2] /\ a[3] < b[3]

RECURSIVE InOrder(_)
\* The first of S, then the others in order.
InOrder(S) ==
  IF S = {} THEN <<>>
  ELSE LET first == CHOOSE o \in S : \A p \in S : ~OccLess(p, o)
       IN  <<first>> \o InOrder(S \ {first})

(***************************************************************************)
(* C11                                                                     *)
(***************************************************************************)
\* The program of test/main.c has run its module: Module1 holds the single
\* group GroupA, GroupA holds Case1 and then Case2, the module is the only
\* item of the Run, Case1 asserted a pass and the first thing Case2 did was
\* to fail with the message M.
MainProgramRan ==
  /\ moduleItems["Module1"] = Slots(<<"GroupA">>, CUTEST_MAX_NUM_GROUPS)
  /\ groupItems["GroupA"] = Slots(<<"Case1", "Case2">>, CUTEST_MAX_NUM_CASES)
  /\ root.ulCount = 1
  /\ root.asItems[0] = [eType |-> EN_CUTEST_TYPE_MODULE, pItem |-> "Module1"]
  /\ stack = <<>>
  /\ tc["Case1"].eResult = EN_CUTEST_RESULT_PASS
  /\ fnCase = "Case2"
  /\ Len(fnLog) = 2
  /\ fnLog[2].ev = "assert" /\ ~fnLog[2].cond /\ Supplied(fnLog[2].msg)

\* C11: after that run both cases were executed, in slot order; Case2 is
\* Failed with M; the tape printed is ".F", the totals are {2, 1, 1}, the
\* detail listing has exactly one entry, numbered 1, for Case2 with M; and
\* main returns Failed, EXIT_FAILURE.
C11_MainProgram ==
  MainProgramRan =>
    /\ runLog = << RunnerCall("CuTest_RunTestModule", "Module1", NULL, 0),
                   RunnerCall("CuTest_RunTestGroup", "GroupA", "Module1", 0),
                   RunnerCall("CuTest_RunTestCase", "Case1", "GroupA", 0),
                   RunnerCall("CuTest_RunTestCase", "Case2", "GroupA", 1) >>
    /\ tc["Case2"].eResult = EN_CUTEST_RESULT_FAIL
    /\ tc["Case2"].acMessage = fnLog[2].msg.str
    /\ console # <<>> =>
         /\ console[1].tape = <<CUTEST_SUMMARY_CHR_PASSED, CUTEST_SUMMARY_CHR_FAILED>>
         /\ console[1].totals = [ulTotal |-> 2, ulPassed |-> 1, ulFailed |-> 1]
         /\ console[1].banner = "FAIL"
         /\ console[1].header = <<1, 0>>
         /\ Len(console[1].details) = 1
         /\ console[1].details[1] =
              [num |-> 1, name |-> "Case2", file |-> fnLog[2].file,
               line |-> fnLog[2].line, text |-> fnLog[2].msg.str]
    /\ exitCode # <<>> =>
         exitCode[1] = [eResult |-> EN_CUTEST_RESULT_FAIL, status |-> "EXIT_FAILURE"]

\* main of test/main.c has printed the results and returned.
C11_Witness ==
  /\ MainProgramRan
  /\ fnLog[2].msg = Str(<<"m">>)
  /\ console # <<>>
  /\ exitCode # <<>>
  /\ phase = "exited"

(***************************************************************************)
(* C12                                                                     *)
(***************************************************************************)
\* main's last call was RUN_TEST_CASE, RUN_TEST_GROUP or RUN_TEST_MODULE.
LastCallIsRunMacro(call) ==
  /\ Len(call) = 2
  /\ call[1] \in {"CuTest_RunTestCase", "CuTest_RunTestGroup", "CuTest_RunTestModule"}

\* C12: the item count of the Run never exceeds CUTEST_MAX_NUM_ROOT_ITEM,
\* every stored item has a non-null reference and the slots from the count
\* on are as BEGIN_TEST_RUN left them; a registration on a Run that holds
\* capacity-many items fails its assertion and leaves the Run as it was,
\* and no registration fails on a Run that holds fewer.
C12_CountWithinCapacity ==
  /\ [](/\ root.ulCount <= CUTEST_MAX_NUM_ROOT_ITEM
        /\ \A i \in 0..(CUTEST_MAX_NUM_ROOT_ITEM - 1) :
             IF i < root.ulCount THEN root.asItems[i].pItem # NULL
             ELSE root.asItems[i] = InitRoot.asItems[i])
  /\ [][(phase = "run" /\ stack = <<>> /\ LastCallIsRunMacro(lastCall')) =>
          /\ root.ulCount = CUTEST_MAX_NUM_ROOT_ITEM <=> phase' = "aborted"
          /\ phase' = "aborted" => root' = root /\ stack' = <<>>
          /\ phase' # "aborted" => root'.ulCount = root.ulCount + 1]_vars

\* A fourth registration on a Run of capacity three was refused.
C12_Witness ==
  /\ phase = "aborted"
  /\ LastCallIsRunMacro(lastCall)
  /\ root.ulCount = CUTEST_MAX_NUM_ROOT_ITEM
  /\ \A i \in 0..(CUTEST_MAX_NUM_ROOT_ITEM - 1) : root.asItems[i].pItem # NULL

(***************************************************************************)
(* C13                                                                     *)
(***************************************************************************)
\* The runner that goes with a kind of Run item.
RunnerOf(eType) ==
  IF eType = EN_CUTEST_TYPE_CASE THEN "CuTest_RunTestCase"
  ELSE IF eType = EN_CUTEST_TYPE_GROUP THEN "CuTest_RunTestGroup"
  ELSE "CuTest_RunTestModule"

\* C13: the Run changes only by a top-level RUN_TEST_ call, which stores
\* one item, of the kind of the macro and referring to its argument, in the
\* slot after the last one, leaves every other slot as it was and enters
\* the runner of that kind on the argument; main enters a runner in no
\* other way.  The items are therefore in the order of the calls, the last
\* item being that of the last call.
C13_RegisterThenRun ==
  /\ [][(root' # root \/ (stack = <<>> /\ stack' # <<>>)) =>
          /\ phase = "run" /\ stack = <<>>
          /\ LastCallIsRunMacro(lastCall')
          /\ root'.ulCount = root.ulCount + 1
          /\ \A i \in 0..(CUTEST_MAX_NUM_ROOT_ITEM - 1) :
               i # root.ulCount => root'.asItems[i] = root.asItems[i]
          /\ root'.asItems[root.ulCount].pItem = lastCall'[2]
          /\ RunnerOf(root'.asItems[root.ulCount].eType) = lastCall'[1]
          /\ stack' = <<Frame(lastCall'[1], lastCall'[2], "entry", 0)>>]_vars
  /\ []((LastCallIsRunMacro(lastCall) /\ phase # "aborted") =>
          /\ root.asItems[root.ulCount - 1].pItem = lastCall[2]
          /\ RunnerOf(root.asItems[root.ulCount - 1].eType) = lastCall[1])

\* A module, a case and a group were registered and run, in this order.
C13_Witness ==
  /\ root.ulCount = 3
  /\ root.asItems[0] = [eType |-> EN_CUTEST_TYPE_MODULE, pItem |-> "Module1"]
  /\ root.asItems[1] = [eType |-> EN_CUTEST_TYPE_CASE, pItem |-> "Case1"]
  /\ root.asItems[2] = [eType |-> EN_CUTEST_TYPE_GROUP, pItem |-> "GroupA"]
  /\ lastCall = <<"CuTest_RunTestGroup", "GroupA">>
  /\ stack = <<>>

(***************************************************************************)
(* C14                                                                     *)
(***************************************************************************)
\* The character that stands for a result on the tape.
TapeChr(eResult) ==
  IF eResult = EN_CUTEST_RESULT_PASS THEN "."
  ELSE IF eResult = EN_CUTEST_RESULT_FAIL THEN "F"
  ELSE "?"

\* C14: the summary tape printed has one character for every case that no
\* empty slot precedes in its group or module, in the order of the tree
\* (Run items as registered, slots in slot order): '.' for Passed, 'F' for
\* Failed and '?' for any other result.
C14_TapeOneCharPerCase ==
  console # <<>> =>
    LET cases == InOrder(PrefixOccurrences)
    IN  /\ Len(console[1].tape) = Cardinality(PrefixOccurrences)
        /\ \A k \in 1..Len(console[1].tape) :
             console[1].tape[k] = TapeChr(tc[OccCase(cases[k])].eResult)

\* The tape of a case and a module of two groups, "?" first and "F" among
\* the module's.
C14_Witness ==
  /\ console # <<>>
  /\ root.ulCount = 2
  /\ root.asItems[0].eType = EN_CUTEST_TYPE_CASE
  /\ root.asItems[1].eType = EN_CUTEST_TYPE_MODULE
  /\ Len(console[1].tape) = 4
  /\ console[1].tape[1] = "?"
  /\ console[1].tape[3] = "F"

(***************************************************************************)
(* C15                                                                     *)
(***************************************************************************)
\* The cases in the occupied slots of the Run that are not Passed.
NotPassed == Occurrences \ With(Occurrences, EN_CUTEST_RESULT_PASS)

\* C15: the banner printed is PASS, with no entry listed, iff passed =
\* total; otherwise the header reports n = failed and m = total - passed -
\* failed, and the listing has n + m entries: one for every case that is
\* Failed or Undefined and for no other, in the order of the tree, numbered
\* 1, 2, ... across the whole Run.
C15_DetailListing ==
  console # <<>> =>
    LET c == console[1]
        cases == InOrder(NotPassed)
    IN  /\ c.banner = "PASS" <=> c.totals.ulPassed = c.totals.ulTotal
        /\ c.banner = "PASS" => c.details = <<>> /\ NotPassed = {}
        /\ c.banner # "PASS" =>
             /\ c.header = <<c.totals.ulFailed,
                             c.totals.ulTotal - c.totals.ulPassed - c.totals.ulFailed>>
             /\ c.header[1] = Cardinality(With(Occurrences, EN_CUTEST_RESULT_FAIL))
             /\ c.header[2] = Cardinality(With(Occurrences, EN_CUTEST_RESULT_UNDEF))
             /\ Len(c.details) = c.header[1] + c.header[2]
        /\ Len(c.details) = Cardinality(NotPassed)
        /\ \A k \in 1..Len(c.details) :
             /\ c.details[k].num = k
             /\ c.details[k].name = OccCase(cases[k])

\* A listing of three entries over two Run items: an Undefined case twice,
\* then a Failed one.
C15_Witness ==
  /\ console # <<>>
  /\ root.ulCount = 2
  /\ Len(console[1].details) = 3
  /\ console[1].details[1].text = NotEvaluated
  /\ tc[console[1].details[3].name].eResult = EN_CUTEST_RESULT_FAIL
  /\ console[1].header = <<1, 2>>

(***************************************************************************)
(* C16                                                                     *)
(***************************************************************************)
\* C16: the report written has one row for every case in an occupied slot
\* of the Run, in the order of the tree; the k-th row carries the number k,
\* the result cell pass, fail or invalid for Passed, Failed and any other
\* result, the location of the failing assertion and the failure message
\* when the case is Failed, and the location of the case's declaration and
\* an empty message cell otherwise.
C16_ReportRows ==
  report # <<>> =>
    LET rows == Rows(report[1])
        cases == InOrder(Occurrences)
    IN  /\ Len(rows) = Cardinality(Occurrences)
        /\ \A k \in 1..Len(rows) :
             LET psCase == OccCase(cases[k])
                 t == tc[psCase]
             IN  /\ rows[k].num = k
                 /\ rows[k].name = psCase
                 /\ rows[k].result = "pass" <=> t.eResult = EN_CUTEST_RESULT_PASS
                 /\ rows[k].result = "fail" <=> t.eResult = EN_CUTEST_RESULT_FAIL
                 /\ rows[k].result = "invalid" <=>
                      t.eResult \notin {EN_CUTEST_RESULT_PASS, EN_CUTEST_RESULT_FAIL}
                 /\ IF t.eResult = EN_CUTEST_RESULT_FAIL
                    THEN /\ rows[k].file = t.pszMsgFile
                         /\ rows[k].line = t.ulMsgLine
                         /\ rows[k].text = t.acMessage
                    ELSE /\ rows[k].file = CaseFile(psCase)
                         /\ rows[k].line = CaseLine(psCase)
                         /\ rows[k].text = <<>>

\* A report of two Run items with a row for a Failed case and a row for a
\* Passed case whose message location is still that of an earlier failure.
C16_Witness ==
  /\ report # <<>>
  /\ root.ulCount = 2
  /\ \E j, k \in 1..Len(Rows(report[1])) :
       /\ Rows(report[1])[j].result = "fail"
       /\ Rows(report[1])[j].line = tc[Rows(report[1])[j].name].ulMsgLine
       /\ Rows(report[1])[k].result = "pass"
       /\ tc[Rows(report[1])[k].name].ulMsgLine # CaseLine(Rows(report[1])[k].name)
       /\ Rows(report[1])[k].line = CaseLine(Rows(report[1])[k].name)

(***************************************************************************)
(* C17                                                                     *)
(***************************************************************************)
\* The last thing the test function of fnCase did was a CuAssertMemEquals.
JustCompared == fnCase # NULL /\ fnLog # <<>> /\ LastEvent.ev = "assert"

\* The offsets at which the buffers of the last call differ.
Mismatches == {i \in 0..(LastEvent.size - 1) : LastEvent.expected[i] # LastEvent.actual[i]}

\* The smallest of them.
FirstMismatch == CHOOSE k \in Mismatches : \A j \in Mismatches : k <= j

\* C17: CuAssertMemEquals over N bytes passes iff all N bytes match (so it
\* passes for N = 0): then it compared all N offsets and returned to the
\* test function.  Otherwise the case is Failed, the message cites the
\* smallest mismatching offset k with the expected and the actual byte at k,
\* the message location is the call site, the test function was left, and
\* the offsets compared were 0..k and no later one.
C17_MemEqualsFirstMismatch ==
  JustCompared =>
    /\ tc[fnCase].eResult \in {EN_CUTEST_RESULT_PASS, EN_CUTEST_RESULT_FAIL}
    /\ tc[fnCase].eResult = EN_CUTEST_RESULT_PASS <=> Mismatches = {}
    /\ Mismatches = {} =>
         /\ LastEvent.ulCompared = LastEvent.size
         /\ LastEvent.cond
    /\ Mismatches # {} =>
         /\ tc[fnCase].acMessage =
              MismatchText(FirstMismatch, LastEvent.expected[FirstMismatch],
                           LastEvent.actual[FirstMismatch])
         /\ tc[fnCase].pszMsgFile = LastEvent.file
         /\ tc[fnCase].ulMsgLine = LastEvent.line
         /\ LastEvent.ulCompared = FirstMismatch + 1
         /\ ~LastEvent.cond
         /\ \A j \in DOMAIN stack : stack[j].fn # "TestFn"

\* Two buffers of two bytes that differ at both offsets were compared,
\* after a comparison of equal buffers: the message is
\* "mismatch at offset <0>: expected <0x11>, but was <0xFF>".
C17_Witness ==
  /\ JustCompared
  /\ Len(fnLog) = 3
  /\ fnLog[2].size > 0 /\ fnLog[2].cond
  /\ LastEvent.size = 2
  /\ Mismatches = {0, 1}
  /\ tc[fnCase].acMessage =
       <<"m", "i", "s", "m", "a", "t", "c", "h", " ", "a", "t", " ", "o",
     "f", "f", "s", "e", "t", " ", "<", "0", ">", ":", " ", "e", "x", "p",
     "e", "c", "t", "e", "d", " ", "<", "0", "x", "1", "1", ">", ",", " ",
     "b", "u", "t", " ", "w", "a", "s", " ", "<", "0", "x", "F", "F", ">">>

(***************************************************************************)
(* C18                                                                     *)
(***************************************************************************)
FopenFailed == <<"CuTest_GenerateRunReport", "fopen: NULL">>

\* C18: a call of CuTest_GenerateRunReport whose fopen returns NULL returns
\* to main (no assertion fails) and leaves the report file, the results of
\* the cases, the trees, the Run (and with them the overall result that
\* CuTest_GetRunResult computes from these), what was printed on the
\* console and the exit code as they were.  (The call reaches fopen only
\* on a Run below capacity.)
C18_FopenFailureIsSilent ==
  [][(AtMain /\ CountBelowCapacity(root) /\ lastCall' = FopenFailed) =>
       /\ phase' \in {"run", "report"}
       /\ stack' = <<>>
       /\ UNCHANGED <<tc, groupItems, moduleItems, root, console, report, exitCode>>]_vars

\* After the results of two Run items were printed and a report written,
\* a second call could not open the file.
C18_Witness ==
  /\ lastCall = FopenFailed
  /\ phase = "report"
  /\ root.ulCount = 2
  /\ console # <<>>
  /\ report # <<>>

(***************************************************************************)
(* C19                                                                     *)
(***************************************************************************)
\* {total, passed, failed} summed over the cases that no empty slot
\* precedes in their group or module.
SumOfPrefixStats ==
  [ulTotal |-> Cardinality(PrefixOccurrences),
   ulPassed |-> Cardinality(With(PrefixOccurrences, EN_CUTEST_RESULT_PASS)),
   ulFailed |-> Cardinality(With(PrefixOccurrences, EN_CUTEST_RESULT_FAIL))]

\* C19 as claimed: the statistics of a group sum over the slots before its
\* first empty slot only, and those of a module over the groups before its
\* first empty slot only, so a case stored after an empty slot adds to none
\* of the totals printed on the console or written to the report.
C19_StatsStopAtFirstEmptySlot ==
  /\ console # <<>> => console[1].totals = SumOfPrefixStats
  /\ report # <<>> => report[1].totals = SumOfPrefixStats

(***************************************************************************)
(* C20                                                                     *)
(***************************************************************************)
\* main's last top-level run was the run of a group or a module and has
\* returned.
GroupOrModuleRunReturned ==
  /\ stack = <<>>
  /\ runLog # <<>>
  /\ runLog[1].fn \in {"CuTest_RunTestGroup", "CuTest_RunTestModule"}

\* The cases below the Run item of that run.
MemberCases == {o \in Occurrences : o[1] = runLog[1].slot}

\* No empty slot precedes an occupied one below that item.
PrefixPacked == MemberCases \subseteq PrefixOccurrences

\* The calls of CuTest_RunTestCase the runners of that run made.
CaseRuns == SelectSeq(runLog, LAMBDA e : e.fn = "CuTest_RunTestCase")

\* C20: when CuTest_RunTestGroup or CuTest_RunTestModule has returned on a
\* prefix-packed group or module, CuTest_RunTestCase was called exactly once
\* for every member case, in slot order, whatever the results of the cases
\* before it; the result of the case run last is that of its own
\* assertions; and the fields of a case change only while
\* CuTest_RunTestCase or the test function of that very case is running.
C20_FailureDoesNotStopRunner ==
  /\ []((GroupOrModuleRunReturned /\ PrefixPacked) =>
          LET cases == InOrder(MemberCases)
          IN  /\ Len(CaseRuns) = Cardinality(MemberCases)
              /\ \A k \in 1..Len(CaseRuns) :
                   CaseRuns[k] = RunnerCall("CuTest_RunTestCase", OccCase(cases[k]),
                                            ItemGroup(cases[k]), cases[k][3])
              /\ MemberCases # {} =>
                   /\ fnCase = OccCase(cases[Len(cases)])
                   /\ tc[fnCase].eResult = EN_CUTEST_RESULT_FAIL <=> FailedAssertions # {}
                   /\ tc[fnCase].eResult = EN_CUTEST_RESULT_UNDEF <=> Assertions = {})
  /\ [][\A c \in Cases :
          tc'[c] # tc[c] =>
            /\ stack # <<>>
            /\ Top.p = c
            /\ Top.fn \in {"CuTest_RunTestCase", "TestFn"}]_vars

\* The run of a module of two groups has returned: its first case Failed,
\* the two after it were run and the last one Passed.
C20_Witness ==
  /\ GroupOrModuleRunReturned
  /\ PrefixPacked
  /\ root.ulCount = 1
  /\ runLog[1].fn = "CuTest_RunTestModule"
  /\ Len(CaseRuns) = 3
  /\ tc[CaseRuns[1].p].eResult = EN_CUTEST_RESULT_FAIL
  /\ tc[CaseRuns[3].p].eResult = EN_CUTEST_RESULT_PASS

(***************************************************************************)
(* C21                                                                     *)
(***************************************************************************)
\* main's call is one of CuTest_PrintRunResults, CuTest_GenerateRunReport
\* and CuTest_GetRunResult (each of which calls CuTestGetStats).
IsReportingCall(call) ==
  /\ call # <<>>
  /\ call[1] \in {"CuTest_PrintRunResults", "CuTest_GenerateRunReport", "CuTest_GetRunResult"}

\* C21: a call of CuTest_PrintRunResults, CuTest_GenerateRunReport or
\* CuTest_GetRunResult, made any number of times and in any order, leaves
\* the fields of every case, the trees and the Run as they were; a repeated
\* call prints or writes what the earlier one did; and the totals on the
\* console, the totals in the report and the overall result returned agree
\* with each other.
C21_ReportersSideEffectFree ==
  /\ [][(AtMain /\ IsReportingCall(lastCall')) =>
          /\ UNCHANGED <<tc, groupItems, moduleItems, root>>
          /\ (lastCall'[1] = "CuTest_PrintRunResults" /\ console # <<>>
                /\ phase' # "aborted") => console' = console
          /\ (lastCall' = <<"CuTest_GenerateRunReport", "fopen: FILE*">> /\ report # <<>>
                /\ phase' # "aborted") => report' = report]_vars
  /\ [](/\ (console # <<>> /\ report # <<>>) => console[1].totals = report[1].totals
        /\ (console # <<>> /\ exitCode # <<>>) =>
             (exitCode[1].eResult = EN_CUTEST_RESULT_PASS <=> console[1].banner = "PASS")
        /\ (report # <<>> /\ exitCode # <<>>) =>
             (exitCode[1].eResult = EN_CUTEST_RESULT_PASS <=>
                report[1].totals.ulPassed = report[1].totals.ulTotal))

\* The report was written before the results of a Run of a case and a
\* module were printed, and main has returned the overall result.
C21_Witness ==
  /\ phase = "exited"
  /\ root.ulCount = 2
  /\ console # <<>>
  /\ report # <<>>
  /\ console[1].totals.ulTotal >= 3
  /\ console[1].totals.ulFailed >= 1

(***************************************************************************)
(* C22                                                                     *)
(***************************************************************************)
\* C22 as claimed: on a Run that holds CUTEST_MAX_NUM_ROOT_ITEM items, each
\* registered without a contract violation, no call of
\* CuTest_PrintRunResults, CuTest_GenerateRunReport or CuTest_GetRunResult
\* ends in a failed assertion.
C22_FullRunCanBeReported ==
  (root.ulCount = CUTEST_MAX_NUM_ROOT_ITEM /\ IsReportingCall(lastCall)) =>
    phase # "aborted"

(***************************************************************************)
(* C23                                                                     *)
(***************************************************************************)
\* No empty slot precedes an occupied one in any group or module of the
\* Run, and no runner is at work.
PrefixPackedRun == stack = <<>> /\ Occurrences = PrefixOccurrences

\* C23: on a Run whose groups and modules are prefix-packed the four walks
\* agree.  The cases the runners executed are the cases of the tree, in the
\* order of the tree; the tape has one character for each of them, in that
\* order, showing the result of the case executed at that position; the
\* tape length and the number of report rows equal the total of the
\* statistics; and the number of detail entries is total - passed.
C23_WalksAgree ==
  PrefixPackedRun =>
    LET occ == Occurrences
        cases == InOrder(occ)
    IN  /\ Len(caseLog) = Cardinality(occ)
        /\ \A k \in 1..Len(caseLog) : caseLog[k] = OccCase(cases[k])
        /\ console # <<>> =>
             /\ Len(console[1].tape) = Len(caseLog)
             /\ \A k \in 1..Len(caseLog) :
                  console[1].tape[k] = TapeChr(tc[caseLog[k]].eResult)
             /\ Len(console[1].tape) = console[1].totals.ulTotal
             /\ Len(console[1].details) =
                  console[1].totals.ulTotal - console[1].totals.ulPassed
        /\ report # <<>> =>
             /\ Len(Rows(report[1])) = report[1].totals.ulTotal
             /\ Len(Rows(report[1])) = Len(caseLog)
             /\ \A k \in 1..Len(caseLog) : Rows(report[1])[k].name = caseLog[k]

\* The results of a prefix-packed Run of a group and a module of two groups
\* were printed and written.
C23_Witness ==
  /\ PrefixPackedRun
  /\ root.ulCount = 2
  /\ root.asItems[0].eType = EN_CUTEST_TYPE_GROUP
  /\ root.asItems[1].eType = EN_CUTEST_TYPE_MODULE
  /\ Len(caseLog) = 5
  /\ console # <<>>
  /\ report # <<>>
  /\ Len(console[1].details) \in 1..4

(***************************************************************************)
(* C24                                                                     *)
(***************************************************************************)
Range(f) == {f[k] : k \in DOMAIN f}

\* The message location of a case.
MsgLocation(t) == <<t.pszMsgFile, t.ulMsgLine>>

\* C24: the message location of a case changes only in a step in which an
\* assertion of that case fails, and every failing assertion leaves it at
\* its call site; a passing assertion changes nothing of the case but the
\* result, which it sets to Passed; the reset of CuTest_RunTestCase leaves
\* the location as it was.  The location is therefore, after any sequence
\* of runs, that of the most recent failing assertion of the case, and the
\* one TEST_CASE gave it while none has failed.
C24_LocationOnlyByFailure ==
  /\ [][LET asserted == /\ Len(fnLog') = Len(fnLog) + 1
                        /\ fnLog'[Len(fnLog')].ev = "assert"
            e == fnLog'[Len(fnLog')]
        IN  /\ \A c \in Cases :
                 MsgLocation(tc'[c]) # MsgLocation(tc[c]) =>
                   asserted /\ fnCase = c /\ ~e.cond
            /\ (asserted /\ ~e.cond) =>
                 /\ MsgLocation(tc'[fnCase]) = <<e.file, e.line>>
                 /\ tc'[fnCase].eResult = EN_CUTEST_RESULT_FAIL
            /\ (asserted /\ e.cond) =>
                 tc'[fnCase] = [tc[fnCase] EXCEPT !.eResult = EN_CUTEST_RESULT_PASS]
            /\ (fnLog' = <<>> /\ fnCase' # NULL) =>
                 MsgLocation(tc'[fnCase']) = MsgLocation(tc[fnCase'])]_vars
  /\ [](\A c \in Cases : c \notin Range(caseLog) =>
          MsgLocation(tc[c]) = <<CaseFile(c), CaseLine(c)>>)

\* A case that failed in another file in an earlier run has passed in its
\* latest run: the location is still that of the failure.
C24_Witness ==
  /\ RunReturned
  /\ FailedBefore
  /\ tc[fnCase].eResult = EN_CUTEST_RESULT_PASS
  /\ tc[fnCase].pszMsgFile = "util.h"

(***************************************************************************)
(* C25                                                                     *)
(***************************************************************************)
\* C25: for a Run without cases (nothing registered, or only groups and
\* modules whose slots hold no case) the totals printed and written are
\* {0, 0, 0}, the banner is PASS over an empty tape and an empty listing,
\* and main returns Passed, EXIT_SUCCESS.
C25_EmptyRunPasses ==
  ((console # <<>> \/ report # <<>> \/ exitCode # <<>>) /\ Occurrences = {}) =>
    /\ console # <<>> =>
         /\ console[1].totals = ZeroStats
         /\ console[1].banner = "PASS"
         /\ console[1].tape = <<>>
         /\ console[1].details = <<>>
    /\ report # <<>> =>
         /\ report[1].totals = ZeroStats
         /\ Rows(report[1]) = <<>>
    /\ exitCode # <<>> =>
         exitCode[1] = [eResult |-> EN_CUTEST_RESULT_PASS, status |-> "EXIT_SUCCESS"]

\* main has printed, written and returned the result of a Run of a group
\* without cases and a module that holds only that group.
C25_Witness ==
  /\ phase = "exited"
  /\ root.ulCount = 2
  /\ root.asItems[0].eType = EN_CUTEST_TYPE_GROUP
  /\ root.asItems[1].eType = EN_CUTEST_TYPE_MODULE
  /\ Occurrences = {}
  /\ console # <<>>
  /\ report # <<>>

\* main has returned the result of a Run in which nothing was registered.
C25_WitnessNothingRegistered ==
  /\ phase = "exited"
  /\ root.ulCount = 0
  /\ console # <<>>

(***************************************************************************)
(* C26                                                                     *)
(***************************************************************************)
\* How often a case occurs in a set of occurrences.
Multiplicity(S, c) == Cardinality({o \in S : OccCase(o) = c})

RECURSIVE SumOf(_, _)
\* The sum of w[c] over the cases c of S.
SumOf(w, S) ==
  IF S = {} THEN 0
  ELSE LET c == CHOOSE x \in S : TRUE
       IN  w[c] + SumOf(w, S \ {c})

\* What the log of the run of fnCase says its result is.
OutcomeOfLastRun ==
  IF FailedAssertions # {} THEN EN_CUTEST_RESULT_FAIL
  ELSE IF Assertions = {} THEN EN_CUTEST_RESULT_UNDEF
  ELSE EN_CUTEST_RESULT_PASS

\* C26: when the results are printed, a case that occurs k times in the
\* occupied slots of the Run adds k to the total, and k to passed or to
\* failed when its result is Passed or Failed, so passed + failed <=
\* total; every character the tape has for the case shows the one result
\* the case holds, whichever Run item the character stands for; and that
\* result is the outcome of the most recent run of the case.
C26_ResultsReadAtReportTime ==
  console # <<>> =>
    LET c1 == console[1]
        occ == Occurrences
        prefix == PrefixOccurrences
        cases == InOrder(prefix)
        k == [c \in Cases |-> Multiplicity(occ, c)]
        kWith(eResult) == [c \in Cases |-> IF tc[c].eResult = eResult THEN k[c] ELSE 0]
    IN  /\ c1.totals.ulTotal = SumOf(k, Cases)
        /\ c1.totals.ulPassed = SumOf(kWith(EN_CUTEST_RESULT_PASS), Cases)
        /\ c1.totals.ulFailed = SumOf(kWith(EN_CUTEST_RESULT_FAIL), Cases)
        /\ c1.totals.ulPassed + c1.totals.ulFailed <= c1.totals.ulTotal
        /\ \A c \in Cases :
             LET at == {j \in 1..Len(c1.tape) : OccCase(cases[j]) = c}
             IN  /\ Cardinality(at) = Multiplicity(prefix, c)
                 /\ \A j \in at : c1.tape[j] = TapeChr(tc[c].eResult)
        /\ (fnCase # NULL /\ Multiplicity(occ, fnCase) > 0) =>
             tc[fnCase].eResult = OutcomeOfLastRun

\* Case1 failed when GroupA was run and passed when it was run again as a
\* Run item of its own: both of its characters on the tape are '.', and it
\* counts twice as passed.
C26_Witness ==
  /\ console # <<>>
  /\ root.ulCount = 2
  /\ root.asItems[0] = [eType |-> EN_CUTEST_TYPE_GROUP, pItem |-> "GroupA"]
  /\ root.asItems[1] = [eType |-> EN_CUTEST_TYPE_CASE, pItem |-> "Case1"]
  /\ fnCase = "Case1"
  /\ FailedBefore
  /\ tc["Case1"].eResult = EN_CUTEST_RESULT_PASS
  /\ Len(console[1].tape) = 3
  /\ console[1].tape[1] = "." /\ console[1].tape[3] = "."
  /\ console[1].totals.ulPassed >= 2

====
